---- MODULE Spec2Model ----
(***************************************************************************)
(* Model of the actor-collaboration graph engine: src/src/graph.rs (Graph, *)
(* hash_graph), src/src/genre.rs (genres_bfs) and src/src/age.rs           *)
(* (ages_bfs).  A vertex is a number 0..n-1; the adjacency list of vertex  *)
(* v is outedges[v + 1] because TLA+ sequences are indexed from 1.         *)
(***************************************************************************)
EXTENDS Integers, Sequences, FiniteSets, TLC

\* Largest vertex count given to create_directed / create_undirected.
MaxN == 3
\* Longest edge list given to create_directed / create_undirected.
MaxEdges == 2
\* Most (key, neighbour) entries a relationship mapping holds in all.
MaxPairs == 2

\* Most entries of the vector age() returns.
MaxActors == 4

\* The actor names of the modelled data.
Names == {"A", "B", "C"}
\* The genre labels of the modelled data.
Labels == {"comedy", "drama"}

VARIABLES
    pc,               \* position in the pipeline being run
    n,                \* argument n of create_directed / create_undirected
    edges,            \* argument edges (ListOfEdges)
    g,                \* the Graph { n, outedges }
    distances,        \* first component of the result of Graph::bfs
    average,          \* second component of the result of Graph::bfs
    file,             \* the lines export_to_csv has written
    result,           \* what export_to_csv returned: "none", "Ok" or "Err"
    hash,             \* the relationship mapping HashMap<ColumnVal, Vec<String>>
    actor_to_index,   \* hash_graph's HashMap<String, usize>
    cohorts,          \* genre(&data): genre label -> actors of that genre
    genres_meta_hash, \* the result map genres_bfs fills
    actors_and_ages,  \* age(data): Vec<(String, Option<ColumnVal>)>
    ages_locals,      \* the local variables of ages_bfs
    ages_out          \* what ages_bfs returned

graphVars  == <<n, edges, g, distances, average, file, result>>
hashVars   == <<hash, actor_to_index>>
cohortVars == <<cohorts, genres_meta_hash>>
ageVars    == <<actors_and_ages, ages_locals, ages_out>>
vars == <<pc, graphVars, hashVars, cohortVars, ageVars>>

----------------------------------------------------------------------------
(* Helpers on sequences *)

Range(s) == {s[i] : i \in 1..Len(s)}

\* All sequences over S of length at most k.
SeqsUpTo(S, k) == UNION {[1..m -> S] : m \in 0..k}

RECURSIVE SumSeq(_)
SumSeq(s) == IF s = <<>> THEN 0 ELSE Head(s) + SumSeq(Tail(s))

RECURSIVE Concat(_)
\* Concatenation of a sequence of sequences.
Concat(ss) == IF ss = <<>> THEN <<>> ELSE Head(ss) \o Concat(Tail(ss))

\* A map without entries, and the graph without vertices.
EmptyMap == [x \in {} |-> 0]
EmptyGraph == [n |-> 0, outedges |-> <<>>]

----------------------------------------------------------------------------
(* graph.rs: Graph construction *)

\* reverse_edges returning its argument as it came.
ReverseEdgesKept(list) == list

\* reverse_edges: every (u, v) becomes (v, u), order kept.
reverse_edges(list) == [i \in 1..Len(list) |-> <<list[i][2], list[i][1]>>]

RECURSIVE AddEdgesFrom(_, _, _, _)
\* The loop of add_directed_edges from edge i on: an edge is pushed onto
\* outedges[u] only when seen.insert((u, v)) reports it as new.
AddEdgesFrom(outedges, list, i, seen) ==
    IF i > Len(list) THEN outedges
    ELSE LET u == list[i][1]
             v == list[i][2]
         IN IF <<u, v>> \in seen
            THEN AddEdgesFrom(outedges, list, i + 1, seen)
            ELSE AddEdgesFrom(
                     [outedges EXCEPT ![u + 1] = Append(@, v)],
                     list, i + 1, seen \cup {<<u, v>>})

add_directed_edges(outedges, list) == AddEdgesFrom(outedges, list, 1, {})

RECURSIVE InsertSorted(_, _)
InsertSorted(x, s) ==
    IF s = <<>> THEN <<x>>
    ELSE IF x < Head(s) THEN <<x>> \o s
    ELSE <<Head(s)>> \o InsertSorted(x, Tail(s))

RECURSIVE SortList(_)
\* l.sort(): ascending, duplicates kept.
SortList(l) == IF l = <<>> THEN <<>> ELSE InsertSorted(Head(l), SortList(Tail(l)))

RECURSIVE Dedup(_)
\* l.dedup(): of every run of equal consecutive elements the first is kept.
Dedup(l) ==
    IF Len(l) <= 1 THEN l
    ELSE IF l[1] = l[2] THEN Dedup(Tail(l))
    ELSE <<l[1]>> \o Dedup(Tail(l))

\* sort_graph_lists without the dedup() call.
SortListsNoDedup(outedges) == [i \in 1..Len(outedges) |-> SortList(outedges[i])]

\* sort_graph_lists: every list sorted, then deduplicated.
sort_graph_lists(outedges) ==
    [i \in 1..Len(outedges) |-> Dedup(SortList(outedges[i]))]

\* create_directed: n empty lists, the edges added, the lists sorted.
create_directed(num, list) ==
    [n |-> num,
     outedges |-> sort_graph_lists(
                      add_directed_edges([i \in 1..num |-> <<>>], list))]

\* create_undirected: create_directed, then the reversed edges added by a
\* second add_directed_edges (with its own seen set), then sorted again.
create_undirected(num, list) ==
    LET d == create_directed(num, list)
    IN [n |-> num,
        outedges |-> sort_graph_lists(
                         add_directed_edges(d.outedges, reverse_edges(list)))]

----------------------------------------------------------------------------
(* graph.rs: Graph::bfs *)

\* Option<u32>::None in the distance vector.
None == -1

RECURSIVE BfsNeighboursNoIncrement(_, _, _, _, _)
\* The neighbour loop giving a new vertex the distance of v itself.
BfsNeighboursNoIncrement(adj, i, v, distance, queue) ==
    IF i > Len(adj) THEN [distance |-> distance, queue |-> queue]
    ELSE LET u == adj[i]
         IN IF distance[u + 1] = None
            THEN BfsNeighboursNoIncrement(adj, i + 1, v,
                     [distance EXCEPT ![u + 1] = distance[v + 1]],
                     Append(queue, u))
            ELSE BfsNeighboursNoIncrement(adj, i + 1, v, distance, queue)

RECURSIVE BfsNeighboursNoPush(_, _, _, _, _)
\* The neighbour loop without queue.push_back(u): the search ends at the
\* neighbours of the source.
BfsNeighboursNoPush(adj, i, v, distance, queue) ==
    IF i > Len(adj) THEN [distance |-> distance, queue |-> queue]
    ELSE LET u == adj[i]
         IN IF distance[u + 1] = None
            THEN BfsNeighboursNoPush(adj, i + 1, v,
                     [distance EXCEPT ![u + 1] = distance[v + 1] + 1],
                     queue)
            ELSE BfsNeighboursNoPush(adj, i + 1, v, distance, queue)

RECURSIVE BfsNeighbours(_, _, _, _, _)
\* The for loop over outedges[v] from position i on: an unvisited u gets
\* distance[v] + 1 and is pushed to the back of the queue.
BfsNeighbours(adj, i, v, distance, queue) ==
    IF i > Len(adj) THEN [distance |-> distance, queue |-> queue]
    ELSE LET u == adj[i]
         IN IF distance[u + 1] = None
            THEN BfsNeighbours(adj, i + 1, v,
                     [distance EXCEPT ![u + 1] = distance[v + 1] + 1],
                     Append(queue, u))
            ELSE BfsNeighbours(adj, i + 1, v, distance, queue)

RECURSIVE BfsLoop(_, _, _)
\* while let Some(v) = queue.pop_front()
BfsLoop(graph, distance, queue) ==
    IF queue = <<>> THEN distance
    ELSE LET v  == Head(queue)
             st == BfsNeighbours(graph.outedges[v + 1], 1, v, distance, Tail(queue))
         IN BfsLoop(graph, st.distance, st.queue)

\* The distance vector of one source vertex.
BfsFrom(graph, actor) ==
    BfsLoop(graph,
            [i \in 1..graph.n |-> IF i = actor + 1 THEN 0 ELSE None],
            <<actor>>)

RECURSIVE RecordsFrom(_, _, _)
\* for v in 0..n: a record (actor, v, d) for every Some(d).
RecordsFrom(actor, distance, v) ==
    IF v >= Len(distance) THEN <<>>
    ELSE (IF distance[v + 1] # None THEN <<<<actor, v, distance[v + 1]>>>> ELSE <<>>)
         \o RecordsFrom(actor, distance, v + 1)

\* The distances vector: the records of actor 0, then of actor 1, ...
BfsDistances(graph) ==
    Concat([a \in 1..graph.n |-> RecordsFrom(a - 1, BfsFrom(graph, a - 1), 0)])

\* The average rounded to the nearest integer instead of truncated.
AverageRounded(ds) ==
    LET total_distance == SumSeq([i \in 1..Len(ds) |-> ds[i][3]])
    IN IF ds # <<>> THEN (2 * total_distance + Len(ds)) \div (2 * Len(ds)) ELSE 0

\* The sum of the distances returned without the division.
AverageUndivided(ds) ==
    SumSeq([i \in 1..Len(ds) |-> ds[i][3]])

\* total_distance / distances.len(), or 0 for an empty vector.
AverageDistance(ds) ==
    LET total_distance == SumSeq([i \in 1..Len(ds) |-> ds[i][3]])
    IN IF ds # <<>> THEN total_distance \div Len(ds) ELSE 0

----------------------------------------------------------------------------
(* graph.rs: Graph::export_to_csv *)

\* writeln!(file, "{},{}", src, dst): the two indices in decimal.
Row(src, dst) == ToString(src) \o "," \o ToString(dst)

\* The rows of one adjacency list, in list order.
RowsOf(src, targets) ==
    [i \in 1..Len(targets) |-> Row(src, targets[i])]

\* An export that writes an edge only from its smaller endpoint.
ExportLinesOnce(graph) ==
    <<"source,target">>
    \o Concat([i \in 1..graph.n |->
          RowsOf(i - 1, SelectSeq(graph.outedges[i], LAMBDA t : t >= i - 1))])

\* Everything a complete export writes: the header, then the rows of
\* vertex 0, of vertex 1, ...
ExportLines(graph) ==
    <<"source,target">>
    \o Concat([i \in 1..graph.n |-> RowsOf(i - 1, graph.outedges[i])])

----------------------------------------------------------------------------
(* csv.rs: ColumnVal, and graph.rs: hash_graph *)

\* ColumnVal::One(String) and ColumnVal::Two(i64).
One(s) == [kind |-> "One", val |-> s]
Two(i) == [kind |-> "Two", val |-> i]

\* impl fmt::Display for ColumnVal: the text itself, the integer in decimal.
to_string(c) == IF c.kind = "One" THEN c.val ELSE ToString(c.val)

\* The orders in which a HashMap may iterate over the key set S.
Orders(S) == {o \in [1..Cardinality(S) -> S] : Range(o) = S}

RECURSIVE IndexKeysStuck(_, _, _, _)
\* The first loop of hash_graph without index += 1.
IndexKeysStuck(order, i, a2i, index) ==
    IF i > Len(order) THEN a2i
    ELSE LET name == to_string(order[i])
         IN IF name \in DOMAIN a2i
            THEN IndexKeysStuck(order, i + 1, a2i, index)
            ELSE IndexKeysStuck(order, i + 1, a2i @@ (name :> index), index)

RECURSIVE IndexKeys(_, _, _, _)
\* The first loop of hash_graph from key i on:
\* actor_to_index.entry(actor.to_string()).or_insert_with(|| index++).
IndexKeys(order, i, a2i, index) ==
    IF i > Len(order) THEN a2i
    ELSE LET name == to_string(order[i])
         IN IF name \in DOMAIN a2i
            THEN IndexKeys(order, i + 1, a2i, index)
            ELSE IndexKeys(order, i + 1, a2i @@ (name :> index), index + 1)

RECURSIVE FriendEdgesAscending(_, _, _, _)
\* The friend loop keeping an edge only towards a friend of a greater index.
FriendEdgesAscending(actor_idx, friends, j, a2i) ==
    IF j > Len(friends) THEN <<>>
    ELSE (IF friends[j] \in DOMAIN a2i /\ a2i[friends[j]] > actor_idx
          THEN <<<<actor_idx, a2i[friends[j]]>>>>
          ELSE <<>>)
         \o FriendEdgesAscending(actor_idx, friends, j + 1, a2i)

RECURSIVE FriendEdges(_, _, _, _)
\* for friend in friends: an edge for every friend that has an index.
FriendEdges(actor_idx, friends, j, a2i) ==
    IF j > Len(friends) THEN <<>>
    ELSE (IF friends[j] \in DOMAIN a2i
          THEN <<<<actor_idx, a2i[friends[j]]>>>>
          ELSE <<>>)
         \o FriendEdges(actor_idx, friends, j + 1, a2i)

RECURSIVE Connections(_, _, _, _)
\* The second loop of hash_graph from key i on.
Connections(h, order, i, a2i) ==
    IF i > Len(order) THEN <<>>
    ELSE (IF to_string(order[i]) \in DOMAIN a2i
          THEN FriendEdges(a2i[to_string(order[i])], h[order[i]], 1, a2i)
          ELSE <<>>)
         \o Connections(h, order, i + 1, a2i)

\* hash_graph ending in create_directed.
HashGraphDirected(h, order) ==
    LET a2i == IndexKeys(order, 1, EmptyMap, 0)
        connections == Connections(h, order, 1, a2i)
    IN [actor_to_index |-> a2i,
        n |-> Cardinality(DOMAIN a2i),
        connections |-> connections,
        graph |-> create_directed(Cardinality(DOMAIN a2i), connections)]

\* hash_graph(hash) when the HashMap iterates its keys in the given order:
\* the index table, the arguments of create_undirected and the graph.
HashGraph(h, order) ==
    LET a2i == IndexKeys(order, 1, EmptyMap, 0)
        connections == Connections(h, order, 1, a2i)
    IN [actor_to_index |-> a2i,
        n |-> Cardinality(DOMAIN a2i),
        connections |-> connections,
        graph |-> create_undirected(Cardinality(DOMAIN a2i), connections)]

----------------------------------------------------------------------------
(* genre.rs: genres_bfs *)

RECURSIVE GenreHash(_, _, _)
\* for actor in actors: if let Some(c) = hash.get(&actor), insert a clone
\* of the actor and of its list.
GenreHash(actors, i, all) ==
    IF i > Len(actors) THEN EmptyMap
    ELSE LET rest == GenreHash(actors, i + 1, all)
         IN IF actors[i] \in DOMAIN all /\ actors[i] \notin DOMAIN rest
            THEN (actors[i] :> all[actors[i]]) @@ rest
            ELSE rest

\* The tuple genres_bfs stores for one genre: the restricted mapping, its
\* graph, the bfs records and the average.
GenreEntry(genre_hash, order) ==
    LET genre_graph == HashGraph(genre_hash, order).graph
    IN [genre_hash   |-> genre_hash,
        genre_graph  |-> genre_graph,
        genre_bfs    |-> BfsDistances(genre_graph),
        avg_distance |-> AverageDistance(BfsDistances(genre_graph))]

----------------------------------------------------------------------------
(* age.rs: extract_val and ages_bfs *)

\* i32::MAX
I32Max == 2147483647

\* An i64 is kept as two limbs: the value is hi * 2^31 + lo, 0 <= lo < 2^31.
I64(hi, lo) == [hi |-> hi, lo |-> lo]
Less64(a, b) == a.hi < b.hi \/ (a.hi = b.hi /\ a.lo < b.lo)
\* *val > 0
Positive64(a) == a.hi > 0 \/ (a.hi = 0 /\ a.lo > 0)
\* *val >= i32::MIN as i64 && *val <= i32::MAX as i64
InI32(a) == a.hi \in {-1, 0}
\* *val as i32, for a value in range
AsI32(a) == IF a.hi = 0 THEN a.lo ELSE (a.lo - I32Max) - 1

\* Option::None, for a missing age and for first() / last() of an empty slice.
Nothing == [kind |-> "Nothing"]

\* extract_val(opt): opt is Nothing or an entry <<name, age>>.
extract_val(opt) ==
    IF opt = Nothing THEN [ok |-> FALSE, err |-> "Expected ColumnVal::Two or missing value"]
    ELSE IF opt[2].kind = "Two"
         THEN IF InI32(opt[2].val)
              THEN [ok |-> TRUE, val |-> AsI32(opt[2].val)]
              ELSE [ok |-> FALSE, err |-> "Value out of i32 range"]
         ELSE [ok |-> FALSE, err |-> "Expected ColumnVal::Two or missing value"]

\* Result<i32, _>::unwrap_or_default(): the value, or 0 for an Err.
unwrap_or_default(r) == IF r.ok THEN r.val ELSE 0

\* slice.first() and slice.last()
First(slice) == IF slice = <<>> THEN Nothing ELSE slice[1]
Last(slice) == IF slice = <<>> THEN Nothing ELSE slice[Len(slice)]

\* The filter of ages_bfs: Some(ColumnVal::Two(val)) with val > 0.
HasAge(e) == e[2].kind = "Two" /\ Positive64(e[2].val)

RECURSIVE InsertByAge(_, _)
\* x goes behind every entry that is not older: sort_by is stable.
InsertByAge(x, sorted) ==
    IF sorted = <<>> THEN <<x>>
    ELSE IF Less64(x[2].val, Head(sorted)[2].val) THEN <<x>> \o sorted
    ELSE <<Head(sorted)>> \o InsertByAge(x, Tail(sorted))

RECURSIVE SortByAge(_, _)
\* actors_and_ages.sort_by(age): the first k entries, sorted.
SortByAge(list, k) ==
    IF k = 0 THEN <<>> ELSE InsertByAge(list[k], SortByAge(list, k - 1))

\* [0..q], [q..2q], [2q..3q], [3q..]: youngest, second, third, oldest.
Quartiles(sorted) ==
    LET total == Len(sorted)
        q == total \div 4
    IN <<SubSeq(sorted, 1, q),
         SubSeq(sorted, q + 1, 2 * q),
         SubSeq(sorted, 2 * q + 1, 3 * q),
         SubSeq(sorted, 3 * q + 1, total)>>

RECURSIVE BuildConnectionsFiltered(_, _, _)
\* build_connections keeping of every list only the names of the group.
BuildConnectionsFiltered(group, i, all) ==
    IF i > Len(group) THEN EmptyMap
    ELSE LET key  == One(group[i][1])
             rest == BuildConnectionsFiltered(group, i + 1, all)
         IN IF key \in DOMAIN all /\ key \notin DOMAIN rest
            THEN (key :> SelectSeq(all[key],
                                   LAMBDA x : \E j \in 1..Len(group) : group[j][1] = x))
                 @@ rest
            ELSE rest

RECURSIVE build_connections(_, _, _)
\* build_connections(group, all) from entry i on: the key One(actor) with
\* a clone of its list, for every actor of the group that is a key of all.
build_connections(group, i, all) ==
    IF i > Len(group) THEN EmptyMap
    ELSE LET key  == One(group[i][1])
             rest == build_connections(group, i + 1, all)
         IN IF key \in DOMAIN all /\ key \notin DOMAIN rest
            THEN (key :> all[key]) @@ rest
            ELSE rest

\* (extract_val(slice.first()).unwrap_or_default(),
\*  extract_val(slice.last()).unwrap_or_default())
ReportedRange(slice) ==
    <<unwrap_or_default(extract_val(First(slice))),
      unwrap_or_default(extract_val(Last(slice)))>>

----------------------------------------------------------------------------
(* The pipeline of main(): build a graph, run bfs, export it *)

Vertices(num) == 0..(num - 1)

\* The variables a specification does not use keep these values.
GraphIdle ==
    /\ n = 0 /\ edges = <<>> /\ file = <<>> /\ result = "none"
HashIdle == hash = EmptyMap /\ actor_to_index = EmptyMap
CohortIdle == cohorts = EmptyMap /\ genres_meta_hash = EmptyMap
AgeIdle == actors_and_ages = <<>> /\ ages_locals = EmptyMap /\ ages_out = EmptyMap

\* The edge list of the path 0 - 1 - 2 - 3, whose average distance is 1.
PathFour == <<<<0, 1>>, <<1, 2>>, <<2, 3>>>>

\* Any edge list of at most MaxEdges entries over at most MaxN vertices, and
\* the path of four vertices.
Init ==
    /\ pc = "init"
    /\ \/ /\ n \in 0..MaxN
          /\ edges \in SeqsUpTo(Vertices(n) \X Vertices(n), MaxEdges)
       \/ /\ n = Len(PathFour) + 1
          /\ edges = PathFour
    /\ g = EmptyGraph
    /\ distances = <<>>
    /\ average = 0
    /\ file = <<>>
    /\ result = "none"
    /\ HashIdle /\ CohortIdle /\ AgeIdle

CreateDirected ==
    /\ pc = "init"
    /\ g' = create_directed(n, edges)
    /\ pc' = "directed"
    /\ UNCHANGED <<n, edges, distances, average, file, result>>
    /\ UNCHANGED <<hashVars, cohortVars, ageVars>>

CreateUndirected ==
    /\ pc = "init"
    /\ g' = create_undirected(n, edges)
    /\ pc' = "undirected"
    /\ UNCHANGED <<n, edges, distances, average, file, result>>
    /\ UNCHANGED <<hashVars, cohortVars, ageVars>>

\* let (distances, average) = g.bfs()
Bfs ==
    /\ pc \in {"directed", "undirected"}
    /\ distances' = BfsDistances(g)
    /\ average' = AverageDistance(BfsDistances(g))
    /\ pc' = IF pc = "directed" THEN "directed_bfs" ELSE "undirected_bfs"
    /\ UNCHANGED <<n, edges, g, file, result>>
    /\ UNCHANGED <<hashVars, cohortVars, ageVars>>

\* g.export_to_csv(path): File::create and every writeln! may fail, and the
\* ? operator then returns Err with the lines written so far left in the file.
ExportToCsv ==
    /\ pc \in {"directed_bfs", "undirected_bfs"}
    /\ \E written \in 0..Len(ExportLines(g)) :
          /\ file' = SubSeq(ExportLines(g), 1, written)
          /\ result' = IF written = Len(ExportLines(g)) THEN "Ok" ELSE "Err"
    /\ pc' = IF pc = "directed_bfs" THEN "directed_exported" ELSE "undirected_exported"
    /\ UNCHANGED <<n, edges, g, distances, average>>
    /\ UNCHANGED <<hashVars, cohortVars, ageVars>>

Next == CreateDirected \/ CreateUndirected \/ Bfs \/ ExportToCsv

Spec == Init /\ [][Next]_vars

----------------------------------------------------------------------------
(* main(): hash_graph on a relationship mapping, then bfs *)

\* The mapping with the keys One(k), k in keys, whose neighbour lists are
\* read off a list of (key, neighbour) entries.
MkHash(keys, pairs) ==
    [c \in {One(k) : k \in keys} |->
        LET own == SelectSeq(pairs, LAMBDA p : p[1] = c.val)
        IN [j \in 1..Len(own) |-> own[j][2]]]

\* The relationship mappings tried: any key set, the keys all of kind One
\* as connections() makes them, any neighbour lists with at most MaxPairs
\* entries in all.  A neighbour may be no key, and a list may repeat a name.
HashInputs ==
    {MkHash(keys, pairs) :
        keys \in SUBSET Names, pairs \in SeqsUpTo(Names \X Names, MaxPairs)}

\* Two mappings as connections() returns them, every relationship listed by
\* both of its actors: the chain A - B - C, and a mapping where C is no key
\* but a neighbour.  ages_bfs is tried with these.
AgeHashes ==
    {MkHash(Names, <<<<"A", "B">>, <<"B", "A">>, <<"B", "C">>, <<"C", "B">>>>),
     MkHash({"A", "B"}, <<<<"A", "B">>, <<"A", "C">>, <<"B", "C">>>>)}

InitHash ==
    /\ pc = "init"
    /\ hash \in HashInputs \cup AgeHashes
    /\ actor_to_index = EmptyMap
    /\ g = EmptyGraph
    /\ distances = <<>>
    /\ average = 0
    /\ GraphIdle /\ CohortIdle /\ AgeIdle

\* let actors_graph = hash_graph(actors_hash.clone())
HashGraphCall ==
    /\ pc = "init"
    /\ \E order \in Orders(DOMAIN hash) :
          LET r == HashGraph(hash, order)
          IN /\ actor_to_index' = r.actor_to_index
             /\ n' = r.n
             /\ edges' = r.connections
             /\ g' = r.graph
    /\ pc' = "undirected"
    /\ UNCHANGED <<hash, distances, average, file, result>>
    /\ UNCHANGED <<cohortVars, ageVars>>

NextHash == HashGraphCall \/ Bfs

SpecHash == InitHash /\ [][NextHash]_vars

----------------------------------------------------------------------------
(* main(): genres_bfs and ages_bfs on a relationship mapping *)

\* genre(&data) gives every label a non-empty set of actors, each of kind
\* One; an actor may be in several genres and need not be a key of hash.
GenreInputs ==
    [Labels -> {{One(x) : x \in S} : S \in {{"A"}, {"A", "B"}, {"B", "C"}, Names}}]

InitGenres ==
    /\ pc = "genres"
    /\ hash \in HashInputs
    /\ cohorts \in GenreInputs
    /\ genres_meta_hash = EmptyMap
    /\ actor_to_index = EmptyMap
    /\ g = EmptyGraph
    /\ distances = <<>>
    /\ average = 0
    /\ GraphIdle /\ AgeIdle

\* The loop of genres_bfs with one index table kept over all the genres:
\* a genre's keys are numbered after the keys of the genres done before.
GenreStepSharedIndex ==
    /\ pc = "genres"
    /\ \E genre \in DOMAIN cohorts \ DOMAIN genres_meta_hash :
          \E actors \in Orders(cohorts[genre]) :
              LET genre_hash == GenreHash(actors, 1, hash)
              IN \E order \in Orders(DOMAIN genre_hash) :
                    LET a2i == IndexKeys(order, 1, actor_to_index,
                                         Cardinality(DOMAIN actor_to_index))
                        genre_graph ==
                            create_undirected(Cardinality(DOMAIN a2i),
                                              Connections(genre_hash, order, 1, a2i))
                    IN /\ actor_to_index' = a2i
                       /\ genres_meta_hash' =
                             (genre :> [genre_hash   |-> genre_hash,
                                        genre_graph  |-> genre_graph,
                                        genre_bfs    |-> BfsDistances(genre_graph),
                                        avg_distance |->
                                            AverageDistance(BfsDistances(genre_graph))])
                             @@ genres_meta_hash
    /\ pc' = IF DOMAIN genres_meta_hash' = DOMAIN cohorts THEN "genres_done" ELSE "genres"
    /\ UNCHANGED <<graphVars, hash, cohorts, ageVars>>

\* One iteration of the loop of genres_bfs: the HashMap hands out the
\* genres in any order, and the actors of a genre in any order.
GenreStep ==
    /\ pc = "genres"
    /\ \E genre \in DOMAIN cohorts \ DOMAIN genres_meta_hash :
          \E actors \in Orders(cohorts[genre]) :
              LET genre_hash == GenreHash(actors, 1, hash)
              IN \E order \in Orders(DOMAIN genre_hash) :
                    genres_meta_hash' =
                        (genre :> GenreEntry(genre_hash, order)) @@ genres_meta_hash
    /\ pc' = IF DOMAIN genres_meta_hash' = DOMAIN cohorts THEN "genres_done" ELSE "genres"
    /\ UNCHANGED <<graphVars, hashVars, cohorts, ageVars>>

\* The ages of the modelled data: none, below zero (-3), in the range of
\* an i32 (5 and 10) and above it (2^31 + 5).
AgeChoices ==
    {Nothing, Two(I64(-1, I32Max - 2)), Two(I64(0, 5)), Two(I64(0, 10)), Two(I64(1, 5))}

Roster == <<"A", "B", "C">>
\* The actor of row i.
NameAt(i) == Roster[((i - 1) % Len(Roster)) + 1]

\* Eight actors of ages 5, 10, ..., 40.
EightActors == [i \in 1..8 |-> <<NameAt(i), Two(I64(0, 5 * i))>>]

\* Six actors, not in the order of their ages, the oldest above i32::MAX.
SixActors ==
    <<<<"A", Two(I64(0, 10))>>, <<"B", Two(I64(1, 5))>>, <<"C", Two(I64(0, 5))>>,
      <<"A", Two(I64(0, 5))>>, <<"B", Two(I64(0, 10))>>, <<"C", Two(I64(0, 10))>>>>

AgeInputs ==
    {EightActors, SixActors} \cup
    {[i \in 1..Len(a) |-> <<NameAt(i), a[i]>>] : a \in SeqsUpTo(AgeChoices, MaxActors)}

InitAges ==
    /\ pc = "ages"
    /\ hash \in AgeHashes
    /\ actors_and_ages \in AgeInputs
    /\ ages_locals = EmptyMap
    /\ ages_out = EmptyMap
    /\ actor_to_index = EmptyMap
    /\ g = EmptyGraph
    /\ distances = <<>>
    /\ average = 0
    /\ GraphIdle /\ CohortIdle

\* ages_bfs(data, hash), from the vector age(data) returned.  Every one of
\* the four hash_graph calls iterates its own HashMap in any order.
AgesBfs ==
    /\ pc = "ages"
    /\ LET filtered == SelectSeq(actors_and_ages, HasAge)
           sorted   == SortByAge(filtered, Len(filtered))
           slices   == Quartiles(sorted)
           maps     == [k \in 1..4 |-> build_connections(slices[k], 1, hash)]
       IN \E o1 \in Orders(DOMAIN maps[1]), o2 \in Orders(DOMAIN maps[2]),
             o3 \in Orders(DOMAIN maps[3]), o4 \in Orders(DOMAIN maps[4]) :
               LET orders == <<o1, o2, o3, o4>>
                   graphs == [k \in 1..4 |-> HashGraph(maps[k], orders[k]).graph]
               IN /\ ages_locals' = [sorted |-> sorted, slices |-> slices, maps |-> maps]
                  /\ ages_out' =
                        [graphs |-> graphs,
                         bfs |-> [k \in 1..4 |->
                                    <<BfsDistances(graphs[k]),
                                      AverageDistance(BfsDistances(graphs[k]))>>],
                         ranges |-> [k \in 1..4 |-> ReportedRange(slices[k])],
                         outcome |-> "returned"]
    /\ pc' = "ages_done"
    /\ UNCHANGED <<graphVars, hashVars, cohortVars, actors_and_ages>>

NextAges == AgesBfs

SpecAges == InitAges /\ [][NextAges]_vars

\* Either cohort analysis of main().
InitCohorts == InitGenres \/ InitAges

NextCohorts == GenreStep \/ AgesBfs

SpecCohorts == InitCohorts /\ [][NextCohorts]_vars

----------------------------------------------------------------------------
(* Properties of the graph pipeline (specification Spec) *)

Built == pc # "init"
Undirected == pc \in {"undirected", "undirected_bfs", "undirected_exported"}
Searched == pc \in {"directed_bfs", "undirected_bfs",
                    "directed_exported", "undirected_exported"}
Exported == pc \in {"directed_exported", "undirected_exported"}

Adjacent(graph, u, v) == v \in Range(graph.outedges[u + 1])

\* C1: the graph create_undirected returns is symmetric: v is in
\* outedges[u] if and only if u is in outedges[v].
C1_Symmetric ==
    Undirected =>
        \A u, v \in Vertices(g.n) : Adjacent(g, u, v) <=> Adjacent(g, v, u)

\* An undirected graph built from an edge list that holds (u, v) but not
\* (v, u): the reverse entry comes from reverse_edges alone.
C1_Witness ==
    /\ pc = "undirected"
    /\ \E i \in 1..Len(edges) :
          /\ edges[i][1] # edges[i][2]
          /\ <<edges[i][2], edges[i][1]>> \notin Range(edges)
          /\ Adjacent(g, edges[i][2], edges[i][1])

\* The vertices a walk of exactly k edges from s ends in.
RECURSIVE WalkEnds(_, _, _)
WalkEnds(graph, s, k) ==
    IF k = 0 THEN {s}
    ELSE UNION {Range(graph.outedges[w + 1]) : w \in WalkEnds(graph, s, k - 1)}

\* The lengths of the walks from s to v; a shortest one has fewer than n edges.
WalkLengths(graph, s, v) == {k \in 0..(graph.n - 1) : v \in WalkEnds(graph, s, k)}

Min(S) == CHOOSE x \in S : \A y \in S : x <= y

RecordsOf(s, v) == {i \in 1..Len(distances) : distances[i][1] = s /\ distances[i][2] = v}

\* C2: bfs emits exactly one record (s, v, d) for every v reachable from s,
\* s itself with d = 0, none for an unreachable v, and d is the least
\* number of edges of a path from s to v.
C2_BfsShortest ==
    Searched =>
        \A s, v \in Vertices(g.n) :
            IF WalkLengths(g, s, v) = {}
            THEN RecordsOf(s, v) = {}
            ELSE /\ Cardinality(RecordsOf(s, v)) = 1
                 /\ \A i \in RecordsOf(s, v) :
                        distances[i][3] = Min(WalkLengths(g, s, v))
                 /\ (s = v => \A i \in RecordsOf(s, v) : distances[i][3] = 0)

\* The greatest distance among the records ds, which are not empty.
MaxDistance(ds) ==
    CHOOSE d \in {ds[i][3] : i \in 1..Len(ds)} : \A i \in 1..Len(ds) : ds[i][3] <= d

\* C11: the average bfs returns is at least 0 and at most the greatest
\* distance among the records emitted, and it is 0 when no record is emitted.
C11_AverageBounds ==
    Searched =>
        /\ average >= 0
        /\ distances # <<>> => average <= MaxDistance(distances)
        /\ distances = <<>> => average = 0

\* A search whose average is positive and below the greatest distance.
C11_Witness ==
    /\ Searched
    /\ distances # <<>>
    /\ average >= 1
    /\ average < MaxDistance(distances)

\* A search that found a vertex at distance 2 and left another pair without
\* a record.
C2_Witness ==
    /\ Searched
    /\ \E i \in 1..Len(distances) : distances[i][3] = 2
    /\ \E s, v \in Vertices(g.n) : RecordsOf(s, v) = {}

RECURSIVE SumTo(_, _)
\* distances[1][3] + ... + distances[k][3]
SumTo(ds, k) == IF k = 0 THEN 0 ELSE SumTo(ds, k - 1) + ds[k][3]

\* C3: the average is the sum of the distances of all records, self pairs
\* included, divided by the number of records and truncated toward zero;
\* it is 0 for a graph without vertices.
C3_AverageTruncated ==
    Searched =>
        /\ average >= 0
        /\ average * Len(distances) <= SumTo(distances, Len(distances))
        /\ distances # <<>> =>
               SumTo(distances, Len(distances)) < (average + 1) * Len(distances)
        /\ g.n = 0 => average = 0

\* A search whose sum of distances is above half the number of records, so
\* that truncating and rounding differ.
C3_Witness ==
    /\ Searched
    /\ 2 * SumTo(distances, Len(distances)) >= Len(distances)
    /\ distances # <<>>
    /\ \E i \in 1..Len(distances) : distances[i][1] = distances[i][2]

\* The graph of no vertices has been searched: no record, average 0.
C3_WitnessEmpty == Searched /\ g.n = 0 /\ distances = <<>> /\ average = 0

StrictlyAscending(l) == \A i \in 1..(Len(l) - 1) : l[i] < l[i + 1]

\* C4: after create_directed and after create_undirected every adjacency
\* list is strictly ascending, so no target occurs twice in a list.
C4_SortedUnique ==
    Built =>
        /\ Len(g.outedges) = g.n
        /\ \A i \in 1..g.n : StrictlyAscending(g.outedges[i])

\* An undirected graph built from an edge list that holds (u, v) and (v, u):
\* the second add_directed_edges pushes both targets again, and the lists
\* are still without a repeated target.
C4_Witness ==
    /\ pc = "undirected"
    /\ \E i, j \in 1..Len(edges) :
          /\ edges[i][1] # edges[i][2]
          /\ edges[j] = <<edges[i][2], edges[i][1]>>
          /\ g.outedges[edges[i][1] + 1] = <<edges[i][2]>>

\* A directed graph built from an edge list that repeats a pair.
C4_WitnessRepeated ==
    /\ pc = "directed"
    /\ Len(edges) = 2
    /\ edges[1] = edges[2]
    /\ g.outedges[edges[1][1] + 1] = <<edges[1][2]>>

RowCount(u, v) == Cardinality({i \in 2..Len(file) : file[i] = Row(u, v)})

\* The header first, then one row per entry of every adjacency list.
OneRowPerEntry ==
    /\ Len(file) >= 1
    /\ file[1] = "source,target"
    /\ Len(file) = 1 + SumSeq([i \in 1..g.n |-> Len(g.outedges[i])])
    /\ \A u, v \in Vertices(g.n) :
          RowCount(u, v) = IF Adjacent(g, u, v) THEN 1 ELSE 0

\* C10 as stated: the header first, one row per adjacency entry, and for a
\* graph built by create_undirected every undirected edge in exactly two
\* rows, once in each direction.
C10_TwoRowsPerEdge ==
    (Exported /\ result = "Ok") =>
        /\ OneRowPerEntry
        /\ pc = "undirected_exported" =>
              \A u, v \in Vertices(g.n) :
                  Adjacent(g, u, v) =>
                      Cardinality({i \in 2..Len(file) :
                                      file[i] \in {Row(u, v), Row(v, u)}}) = 2

\* C10 amended: the header first, one row per adjacency entry; for a graph
\* built by create_undirected an edge between two different vertices is in
\* exactly two rows, once in each direction, and a self-loop in exactly one.
C10_ExportRows ==
    (Exported /\ result = "Ok") =>
        /\ OneRowPerEntry
        /\ pc = "undirected_exported" =>
              \A u, v \in Vertices(g.n) :
                  Adjacent(g, u, v) =>
                      /\ RowCount(u, v) = 1
                      /\ RowCount(v, u) = 1
                      /\ Cardinality({i \in 2..Len(file) :
                                        file[i] \in {Row(u, v), Row(v, u)}})
                            = IF u = v THEN 1 ELSE 2

\* A complete export of an undirected graph that has an edge between two
\* different vertices and a self-loop.
C10_Witness ==
    /\ pc = "undirected_exported"
    /\ result = "Ok"
    /\ \E u, v \in Vertices(g.n) : u # v /\ Adjacent(g, u, v)
    /\ \E u \in Vertices(g.n) : Adjacent(g, u, u)

----------------------------------------------------------------------------
(* Properties of hash_graph (specification SpecHash) *)

\* The vertex of a key, looked up as hash_graph's second loop does.
IndexOf(c) == actor_to_index[to_string(c)]

\* C5: hash_graph gives every key of the mapping an index of its own, the
\* indices are exactly 0..n-1, and n, the vertex count of the graph, is
\* the number of keys.
C5_IndexBijection ==
    (pc # "init") =>
        /\ g.n = Cardinality(DOMAIN hash)
        /\ \A c \in DOMAIN hash : to_string(c) \in DOMAIN actor_to_index
        /\ \A c, d \in DOMAIN hash : c # d => IndexOf(c) # IndexOf(d)
        /\ {IndexOf(c) : c \in DOMAIN hash} = Vertices(g.n)

\* hash_graph has indexed a mapping of three keys.
C5_Witness ==
    /\ pc = "undirected"
    /\ Cardinality(DOMAIN hash) = 3
    /\ g.n = 3

Lists(c, d) == to_string(d) \in Range(hash[c])

\* C6: the vertices of keys a and b are adjacent iff b is in a's list or a
\* is in b's list; a neighbour that is no key adds no vertex and no edge;
\* a key without a key for a neighbour has a vertex with an empty list.
C6_Adjacency ==
    (pc # "init") =>
        /\ g.n = Cardinality(DOMAIN hash)
        /\ Len(g.outedges) = g.n
        /\ \A i \in 1..g.n : Range(g.outedges[i]) \subseteq Vertices(g.n)
        /\ \A a, b \in DOMAIN hash :
              Adjacent(g, IndexOf(a), IndexOf(b)) <=> (Lists(a, b) \/ Lists(b, a))
        /\ \A a \in DOMAIN hash :
              (\A b \in DOMAIN hash : ~Lists(a, b) /\ ~Lists(b, a))
                  => g.outedges[IndexOf(a) + 1] = <<>>

\* hash_graph has run on a mapping where a key lists a name that is no key
\* and a key that does not list it back: one edge, in both directions.
C6_Witness ==
    /\ pc = "undirected"
    /\ \E a \in DOMAIN hash :
          \E x \in Range(hash[a]) : One(x) \notin DOMAIN hash
    /\ \E a, b \in DOMAIN hash :
          /\ a # b /\ Lists(a, b) /\ ~Lists(b, a)
          /\ Adjacent(g, IndexOf(b), IndexOf(a))
          /\ Adjacent(g, IndexOf(a), IndexOf(b))

\* hash_graph has run on a mapping where the only neighbour of a key is no
\* key: the key has a vertex, with an empty adjacency list.
C6_WitnessIsolated ==
    /\ pc = "undirected"
    /\ \E a \in DOMAIN hash :
          /\ hash[a] # <<>>
          /\ \A x \in Range(hash[a]) : One(x) \notin DOMAIN hash
          /\ g.outedges[IndexOf(a) + 1] = <<>>

----------------------------------------------------------------------------
(* Properties of the cohort analyses (specifications SpecCohorts, SpecAges) *)

\* The one-to-one numberings of the key set S by 0..|S|-1.
Numberings(S) ==
    {f \in [S -> Vertices(Cardinality(S))] : \A a, b \in S : a # b => f[a] # f[b]}

\* restricted and graph are what a cohort with these members must get:
\* the members that are keys of hash, each with its whole list, one vertex
\* for each, and an edge exactly between two of them of which one lists
\* the other.
CohortRestricted(members, restricted, graph) ==
    /\ DOMAIN restricted = members \cap DOMAIN hash
    /\ \A c \in DOMAIN restricted : restricted[c] = hash[c]
    /\ graph.n = Cardinality(DOMAIN restricted)
    /\ Len(graph.outedges) = graph.n
    /\ \A i \in 1..graph.n : Range(graph.outedges[i]) \subseteq Vertices(graph.n)
    /\ \E f \in Numberings(DOMAIN restricted) :
          \A a, b \in DOMAIN restricted :
              Adjacent(graph, f[a], f[b]) <=> (Lists(a, b) \/ Lists(b, a))

MembersOf(slice) == {One(slice[i][1]) : i \in 1..Len(slice)}

\* C7: for every genre of genres_bfs and every quartile of ages_bfs the
\* restricted mapping holds exactly the cohort members that are keys of
\* the full mapping, each with its unfiltered list, and the sub-graph has
\* one vertex per such member and edges only between cohort members.
C7_CohortRestriction ==
    /\ \A genre \in DOMAIN genres_meta_hash :
          CohortRestricted(cohorts[genre],
                           genres_meta_hash[genre].genre_hash,
                           genres_meta_hash[genre].genre_graph)
    /\ pc = "ages_done" =>
          \A k \in 1..4 :
              CohortRestricted(MembersOf(ages_locals.slices[k]),
                               ages_locals.maps[k],
                               ages_out.graphs[k])

\* A genre done whose members are all keys, where a member lists another
\* member and a key outside the genre: the list is kept whole, the graph
\* has the one edge between the two members.
C7_Witness ==
    \E genre \in DOMAIN genres_meta_hash :
        LET e == genres_meta_hash[genre]
        IN /\ Cardinality(cohorts[genre]) = 2
           /\ e.genre_graph.n = 2
           /\ Adjacent(e.genre_graph, 0, 1)
           /\ \E a \in DOMAIN e.genre_hash :
                 \E x \in Range(e.genre_hash[a]) :
                     One(x) \in DOMAIN hash /\ One(x) \notin cohorts[genre]

\* A genre done with a member that is no key of the mapping.
C7_WitnessNoKey ==
    \E genre \in DOMAIN genres_meta_hash :
        /\ cohorts[genre] \ DOMAIN hash # {}
        /\ genres_meta_hash[genre].genre_graph.n >= 1

\* ages_bfs done with the oldest quartile of two actors joined by an edge
\* and listing a name outside the quartile.
C7_WitnessAges ==
    /\ pc = "ages_done"
    /\ ages_out.graphs[4].n = 2
    /\ Adjacent(ages_out.graphs[4], 0, 1)
    /\ \E a \in DOMAIN ages_locals.maps[4] :
          \E x \in Range(ages_locals.maps[4][a]) :
              One(x) \notin MembersOf(ages_locals.slices[4])

\* The age of an entry that passed the filter.
AgeOf(e) == e[2].val
\* The reported i32 is the i64 attribute.
Reports(r, a) == a.hi = 0 /\ a.lo = r

\* C8: ages_bfs splits the ascending sequence of the entries with an
\* attribute > 0 into four contiguous groups, the first three of
\* floor(total / 4) entries and the last of all the rest, and reports for
\* every group the attributes of its first and last entry, its minimum and
\* maximum; the ages 5, 10, ..., 40 give (5,10), (15,20), (25,30), (35,40).
C8_QuartileRanges ==
    pc = "ages_done" =>
        LET sorted == ages_locals.sorted
            slices == ages_locals.slices
            total  == Len(sorted)
        IN /\ total = Cardinality({i \in 1..Len(actors_and_ages) : HasAge(actors_and_ages[i])})
           /\ \A i \in 1..total : HasAge(sorted[i])
           /\ \A i \in 1..(total - 1) : ~Less64(AgeOf(sorted[i + 1]), AgeOf(sorted[i]))
           /\ slices[1] \o slices[2] \o slices[3] \o slices[4] = sorted
           /\ \A k \in 1..3 :
                 4 * Len(slices[k]) <= total /\ total < 4 * (Len(slices[k]) + 1)
           /\ \A k \in 1..4 :
                 slices[k] # <<>> =>
                     /\ Reports(ages_out.ranges[k][1], AgeOf(slices[k][1]))
                     /\ Reports(ages_out.ranges[k][2], AgeOf(slices[k][Len(slices[k])]))
                     /\ \A i \in 1..Len(slices[k]) :
                           /\ ~Less64(AgeOf(slices[k][i]), AgeOf(slices[k][1]))
                           /\ ~Less64(AgeOf(slices[k][Len(slices[k])]), AgeOf(slices[k][i]))
           /\ actors_and_ages = EightActors =>
                 ages_out.ranges = <<<<5, 10>>, <<15, 20>>, <<25, 30>>, <<35, 40>>>>

\* The first or last entry of quartile k has an attribute outside the i32
\* range.
BoundaryOutOfRange(k) ==
    LET slice == ages_locals.slices[k]
    IN slice # <<>> /\ (~InI32(AgeOf(slice[1])) \/ ~InI32(AgeOf(slice[Len(slice)])))

\* C9: when a boundary attribute of a quartile is outside the i32 range,
\* ages_bfs surfaces an explicit error instead of a substituted number.
C9_RangeErrorSurfaced ==
    pc = "ages_done" =>
        ((\E k \in 1..4 : BoundaryOutOfRange(k)) => ages_out.outcome = "error")

----------------------------------------------------------------------------
(* Relations between the distance records (specification Spec) *)

\* The distances of the records from s to v.
Dist(s, v) == {distances[i][3] : i \in RecordsOf(s, v)}

\* C13: in an undirected graph, when m is adjacent to s and v is adjacent
\* to m, bfs emits a record for (s, v), and its distance is at most the
\* distance of (s, m) plus the distance of (m, v).
C13_Triangle ==
    (Undirected /\ Searched) =>
        \A s, m, v \in Vertices(g.n) :
            (Adjacent(g, s, m) /\ Adjacent(g, m, v)) =>
                /\ Dist(s, v) # {} /\ Dist(s, m) # {} /\ Dist(m, v) # {}
                /\ \A d \in Dist(s, v), d1 \in Dist(s, m), d2 \in Dist(m, v) :
                       d <= d1 + d2

\* Three different vertices s - m - v with s at distance 2 from v: the bound
\* is met with equality for (s, v) and strictly for (s, s).
C13_Witness ==
    /\ Undirected /\ Searched
    /\ \E s, m, v \in Vertices(g.n) :
          /\ s # m /\ m # v /\ s # v
          /\ Adjacent(g, s, m) /\ Adjacent(g, m, v)
          /\ Dist(s, v) = {2} /\ Dist(s, m) = {1} /\ Dist(m, v) = {1}
          /\ Dist(s, s) = {0}

\* C15: the records of bfs on a graph built by create_undirected are
\* symmetric: (s, v, d) is a record if and only if (v, s, d) is one.
C15_RecordsSymmetric ==
    (Undirected /\ Searched) =>
        \A s, v \in Vertices(g.n) : \A d \in 0..g.n :
            (<<s, v, d>> \in Range(distances)) <=> (<<v, s, d>> \in Range(distances))

\* An undirected graph from an edge list that holds no edge in both
\* directions, searched: two vertices at distance 2 of each other.
C15_Witness ==
    /\ Undirected /\ Searched
    /\ \A i \in 1..Len(edges) : <<edges[i][2], edges[i][1]>> \notin Range(edges)
    /\ \E s, v \in Vertices(g.n) :
          /\ <<s, v, 2>> \in Range(distances)
          /\ <<v, s, 2>> \in Range(distances)

\* An undirected graph searched where two vertices have no record either way.
C15_WitnessApart ==
    /\ Undirected /\ Searched
    /\ edges # <<>>
    /\ \E s, v \in Vertices(g.n) : Dist(s, v) = {} /\ Dist(v, s) = {}

----------------------------------------------------------------------------
(* Properties of hash_graph followed by bfs (specification SpecHash) *)

\* The relationships of a mapping: the sets of a key and a name its list holds.
Relationships(h) ==
    UNION {{{c.val, h[c][j]} : j \in 1..Len(h[c])} : c \in DOMAIN h}

\* The mapping has the keys A, B and C and the relationships A - B and B - C.
ChainABC ==
    /\ DOMAIN hash = {One(x) : x \in {"A", "B", "C"}}
    /\ Relationships(hash) = {{"A", "B"}, {"B", "C"}}

\* The distances of the records from the vertex of actor a to that of actor b.
DistancesOf(a, b) ==
    {distances[i][3] : i \in RecordsOf(actor_to_index[a], actor_to_index[b])}

\* C12: for the mapping over A, B, C with the relationships A - B and B - C,
\* hash_graph and bfs give nine records: distance 2 for the pair (A, C),
\* distance 1 for (A, B) and for (B, C), distance 0 from each vertex to
\* itself, and the average is 0, the quotient 8 / 9 of the sum of the
\* distances by the number of records, truncated.
C12_ChainScenario ==
    (pc = "undirected_bfs" /\ ChainABC) =>
        /\ Len(distances) = 9
        /\ DistancesOf("A", "C") = {2} /\ DistancesOf("C", "A") = {2}
        /\ DistancesOf("A", "B") = {1} /\ DistancesOf("B", "A") = {1}
        /\ DistancesOf("B", "C") = {1} /\ DistancesOf("C", "B") = {1}
        /\ \A x \in {"A", "B", "C"} : DistancesOf(x, x) = {0}
        /\ SumTo(distances, Len(distances)) = 8
        /\ average = 0

\* The chain as connections() returns it, each relationship in both lists,
\* has been searched.
C12_Witness ==
    /\ pc = "undirected_bfs"
    /\ ChainABC
    /\ hash[One("B")] = <<"A", "C">>
    /\ hash[One("A")] = <<"B">>
    /\ hash[One("C")] = <<"B">>
    /\ Len(distances) = 9

\* The chain with each relationship in one list only has been searched.
C12_WitnessOneSided ==
    /\ pc = "undirected_bfs"
    /\ ChainABC
    /\ hash[One("B")] = <<>>
    /\ Len(distances) = 9

\* Graph g1 numbered by a2i1 and graph g2 numbered by a2i2 are the same
\* graph on the actors: the renumbering a2i1[a] -> a2i2[a] keeps adjacency.
Isomorphic(a2i1, g1, a2i2, g2) ==
    /\ DOMAIN a2i1 = DOMAIN a2i2
    /\ g1.n = g2.n
    /\ \A a, b \in DOMAIN a2i1 :
           Adjacent(g1, a2i1[a], a2i1[b]) <=> Adjacent(g2, a2i2[a], a2i2[b])

\* How many records of ds have the distance d.
DistanceCount(ds, d) == Cardinality({i \in 1..Len(ds) : ds[i][3] = d})

\* C16: whatever order the keys of the mapping are iterated in, hash_graph
\* gives a graph isomorphic under the renumbering of the actors to the one
\* it gave, and bfs on it gives the same multiset of distances, the same
\* distance for every pair of actors and the same average.
C16_OrderIndependent ==
    pc = "undirected_bfs" =>
        \A order \in Orders(DOMAIN hash) :
            LET r  == HashGraph(hash, order)
                ds == BfsDistances(r.graph)
            IN /\ Isomorphic(actor_to_index, g, r.actor_to_index, r.graph)
               /\ Len(ds) = Len(distances)
               /\ \A d \in 0..g.n : DistanceCount(ds, d) = DistanceCount(distances, d)
               /\ \A a, b \in DOMAIN actor_to_index : \A d \in 0..g.n :
                      (<<actor_to_index[a], actor_to_index[b], d>> \in Range(distances))
                          <=> (<<r.actor_to_index[a], r.actor_to_index[b], d>> \in Range(ds))
               /\ AverageDistance(ds) = average

\* A searched mapping with a relationship, which another key order turns
\* into a different index table, a different graph and different records.
C16_Witness ==
    /\ pc = "undirected_bfs"
    /\ \E i \in 1..Len(distances) : distances[i][3] = 2
    /\ \E order \in Orders(DOMAIN hash) :
          LET r == HashGraph(hash, order)
          IN /\ r.actor_to_index # actor_to_index
             /\ r.graph # g
             /\ BfsDistances(r.graph) # distances

----------------------------------------------------------------------------
(* Independence of the cohorts (specification SpecCohorts) *)

\* entry is a tuple genres_bfs gives a genre of these members when it is the
\* only genre: the loop body run on the members and the full mapping h, the
\* two HashMaps iterated in one of their orders.
GenreAlone(members, h, entry) ==
    \E actors \in Orders(members) :
        \E order \in Orders(DOMAIN GenreHash(actors, 1, h)) :
            entry = GenreEntry(GenreHash(actors, 1, h), order)

\* The restricted mapping and the average of a genre are the same under
\* every iteration order.
GenreDetermined(members, h, entry) ==
    /\ \A actors \in Orders(members) : GenreHash(actors, 1, h) = entry.genre_hash
    /\ \A order \in Orders(DOMAIN entry.genre_hash) :
           AverageDistance(BfsDistances(HashGraph(entry.genre_hash, order).graph))
               = entry.avg_distance

\* Every genre done has a result of processing it alone.
GenresAlone ==
    \A genre \in DOMAIN genres_meta_hash :
        /\ GenreAlone(cohorts[genre], hash, genres_meta_hash[genre])
        /\ GenreDetermined(cohorts[genre], hash, genres_meta_hash[genre])

\* Every quartile of ages_bfs has the mapping, a graph, the records and the
\* average that its own slice and the full mapping give.
QuartilesAlone ==
    pc = "ages_done" =>
        \A k \in 1..4 :
            LET restricted == build_connections(ages_locals.slices[k], 1, hash)
            IN /\ ages_locals.maps[k] = restricted
               /\ \E order \in Orders(DOMAIN restricted) :
                      ages_out.graphs[k] = HashGraph(restricted, order).graph
               /\ ages_out.bfs[k][1] = BfsDistances(ages_out.graphs[k])
               /\ \A order \in Orders(DOMAIN restricted) :
                      ages_out.bfs[k][2] =
                          AverageDistance(BfsDistances(HashGraph(restricted, order).graph))

C14_WitnessAges ==
    /\ pc = "ages_done"
    /\ \E i \in 1..Len(ages_out.bfs[1][1]) : ages_out.bfs[1][1][i][3] >= 1
    /\ \E i \in 1..Len(ages_out.bfs[4][1]) : ages_out.bfs[4][1][i][3] >= 1

============================================================================
